---- MODULE Spec2Model ----
(***************************************************************************)
(* Order-fulfilment core of the points-based merch store                   *)
(* (src/Lab Work No 4/app/main.py).  The in-memory tables of the module    *)
(* are the state; every HTTP handler is a pure operator from a state       *)
(* record and its inputs to the state it leaves behind plus the response,  *)
(* and one action of the sequential specification per handler.             *)
(* Spec runs the handlers one at a time.  ReviewSpec, CheckoutSpec and      *)
(* CancelSpec run update_order_status (to UnderReview), create_order and   *)
(* the two cancellations (cancel_order, update_order_status to Cancelled)  *)
(* on several threads, one read or write of the tables per step.           *)
(*                                                                         *)
(* Status literals of the source are Russian; they are named here          *)
(*   New = line 88 item 1, UnderReview = item 2, Assembling = item 3,      *)
(*   ReadyForPickup = item 4, Completed = item 5, Cancelled = item 6.      *)
(* Timestamps (now_iso) and the free-text fields name, description,        *)
(* images, size and color are carried by the source but read by no         *)
(* decision of the handlers; they are not part of the state here.          *)
(***************************************************************************)
EXTENDS Integers, Sequences, FiniteSets, TLC

\* ---- bounds of the model ----
MaxProducts == 2
MaxVariants == 2
MaxOrders == 2
MaxLines == 2
\* the most units (sum of qty) one cart asks for
MaxUnits == 2
\* threads of the server's pool that handle requests at the same time
MaxThreads == 2

SKUs == {"A", "B"}
Qtys == 1..MaxUnits
\* u1 and u2 are seeded (line 54); u3 is a user id the tables have never seen
UserIds == {"u1", "u2", "u3"}
\* the user ids that send requests
Callers == {"u1", "u3"}
Threads == 1..MaxThreads
\* an absent (or empty) X-User-Id header: `not x_user_id`
NoUser == ""
\* an absent X-Role header
NoRole == "none"
Roles == {"buyer", "fulfillment_admin", "content_admin", NoRole}

New == "New"
UnderReview == "UnderReview"
Assembling == "Assembling"
ReadyForPickup == "ReadyForPickup"
Completed == "Completed"
Cancelled == "Cancelled"
\* the value None of a history entry's "from"
None == "None"

OrderStatus == {New, UnderReview, Assembling, ReadyForPickup, Completed, Cancelled}

\* a table that lets an order under assembly be cancelled
ALLOWED_TRANSITIONS_assembling_cancels ==
  [st \in OrderStatus |->
     CASE st = New -> {UnderReview, Cancelled}
       [] st = UnderReview -> {Assembling, Cancelled}
       [] st = Assembling -> {ReadyForPickup, Cancelled}
       [] st = ReadyForPickup -> {Completed}
       [] st = Completed -> {}
       [] st = Cancelled -> {}]

ALLOWED_TRANSITIONS ==
  [st \in OrderStatus |->
     CASE st = New -> {UnderReview, Cancelled}
       [] st = UnderReview -> {Assembling, Cancelled}
       [] st = Assembling -> {ReadyForPickup}
       [] st = ReadyForPickup -> {Completed}
       [] st = Completed -> {}
       [] st = Cancelled -> {}]

\* a cancel guard that forgets that Cancelled is terminal
CANCEL_ALLOWED_again == {New, UnderReview, Cancelled}

CANCEL_ALLOWED == {New, UnderReview}

VARIABLES product_id_seq, order_id_seq, products, variants_by_sku, orders,
          user_points, ledger, pc, loc

vars == <<product_id_seq, order_id_seq, products, variants_by_sku, orders,
          user_points, ledger, pc, loc>>

\* ---- helpers ----
\* the locals of a thread that handles no request
NoLocals == [op |-> "none"]

Range(f) == {f[i] : i \in DOMAIN f}

RECURSIVE SeqsUpTo(_, _)
SeqsUpTo(S, n) ==
  IF n = 0 THEN {<<>>}
  ELSE LET shorter == SeqsUpTo(S, n - 1)
       IN shorter \cup {Append(q, x) : q \in {p \in shorter : Len(p) = n - 1}, x \in S}

\* VariantIn, lines 61-66 (sku, price_points >= 0, stock_total >= 0)
\* the two variants the catalogue is filled with: a priced one with a single
\* unit in stock and a free one with two
VariantIn == {[sku |-> "A", price_points |-> 1500, stock_total |-> 1],
              [sku |-> "B", price_points |-> 0, stock_total |-> 2]}
\* ProductCreate.variants, line 72
ProductCreate == SeqsUpTo(VariantIn, MaxVariants)
\* OrderItemIn, lines 81-83 (qty >= 1)
OrderItemIn == [sku : SKUs, qty : Qtys]
\* OrderCreate.items, line 86 (at least one item)
RECURSIVE Units(_, _)
Units(p, i) == IF i > Len(p) THEN 0 ELSE p[i].qty + Units(p, i + 1)
OrderCreate == {p \in SeqsUpTo(OrderItemIn, MaxLines) \ {<<>>} : Units(p, 1) <= MaxUnits}

\* the tables of lines 46-57 as one record
State ==
  [product_id_seq |-> product_id_seq, order_id_seq |-> order_id_seq,
   products |-> products, variants_by_sku |-> variants_by_sku,
   orders |-> orders, user_points |-> user_points, ledger |-> ledger]

\* a response: the HTTP status and the error code ("OK" on success)
Response(op, status, code) == [op |-> op, status |-> status, code |-> code]

\* api_error raises: the handler ends with the state as mutated so far
api_error(s, op, status_code, code) == [s |-> s, resp |-> Response(op, status_code, code)]

Success(s, op, status_code) == [s |-> s, resp |-> Response(op, status_code, "OK")]

\* require_role: TRUE when the check passes
require_role(x_role, allowed) == x_role # NoRole /\ x_role \in allowed

\* user_points.get(uid, 0)
BalanceIn(up, uid) == IF uid \in DOMAIN up THEN up[uid] ELSE 0

Balance(s, uid) == BalanceIn(s.user_points, uid)

\* dict assignment d[k] = v
Put(d, k, v) == [x \in DOMAIN d \cup {k} |-> IF x = k THEN v ELSE d[x]]

\* ---- Products ----
RECURSIVE register_variants(_, _, _, _)
register_variants(vs, payload, pid, i) ==
  IF i > Len(payload) THEN vs
  ELSE register_variants(
         Put(vs, payload[i].sku,
             [sku |-> payload[i].sku, price_points |-> payload[i].price_points,
              stock_total |-> payload[i].stock_total, reserved |-> 0,
              product_id |-> pid]),
         payload, pid, i + 1)

create_product(s, payload, x_role) ==
  IF ~require_role(x_role, {"content_admin"})
  THEN api_error(s, "create_product", 403, "FORBIDDEN")
  ELSE
    LET pid == s.product_id_seq
        s1 == [s EXCEPT !.product_id_seq = pid + 1]
        req_skus == [i \in DOMAIN payload |-> payload[i].sku]
    IN IF Len(req_skus) # Cardinality(Range(req_skus))
       THEN api_error(s1, "create_product", 422, "VALIDATION_ERROR")
       ELSE IF \E i \in DOMAIN req_skus : req_skus[i] \in DOMAIN s1.variants_by_sku
       THEN api_error(s1, "create_product", 409, "SKU_EXISTS")
       ELSE
         Success([s1 EXCEPT
                    !.variants_by_sku = register_variants(@, payload, pid, 1),
                    !.products = Put(@, pid, [id |-> pid, variants |-> req_skus])],
                 "create_product", 201)

\* ---- Orders ----
RECURSIVE price_items(_, _, _)
price_items(vs, items, i) ==
  IF i > Len(items) THEN <<>>
  ELSE <<[sku |-> items[i].sku, qty |-> items[i].qty,
          unit_points |-> vs[items[i].sku].price_points,
          line_points |-> vs[items[i].sku].price_points * items[i].qty]>>
       \o price_items(vs, items, i + 1)

RECURSIVE sum_lines(_, _)
sum_lines(items_out, i) ==
  IF i > Len(items_out) THEN 0
  ELSE items_out[i].line_points + sum_lines(items_out, i + 1)

\* a check that forgets the total
short_of_points_ignores_total(balance, total) == balance < 0

\* line 174: the balance does not cover the total
short_of_points(balance, total) == balance < total

\* a checkout that takes the order id before it has checked the balance
place_order_id_first(s, payload, x_role, x_user_id) ==
    LET items_out == price_items(s.variants_by_sku, payload, 1)
        total == sum_lines(items_out, 1)
        balance == Balance(s, x_user_id)
        oid == s.order_id_seq
        s1 == [s EXCEPT !.order_id_seq = oid + 1]
    IN IF short_of_points(balance, total)
       THEN api_error(s1, "create_order", 409, "INSUFFICIENT_POINTS")
       ELSE
         Success([s1 EXCEPT
                    !.user_points = Put(@, x_user_id, balance - total),
                    !.ledger = Append(@, [user_id |-> x_user_id, delta |-> 0 - total,
                                          reason |-> "ORDER_CREATED", order_id |-> oid]),
                    !.orders = Put(@, oid,
                       [id |-> oid, user_id |-> x_user_id, status |-> New,
                        items |-> items_out, total_points |-> total,
                        history |-> <<[from |-> None, to |-> New, by_role |-> x_role]>>,
                        reserved |-> FALSE])],
                 "create_order", 201)

\* a checkout that also reserves the stock of its first line
place_order_reserves(s, payload, x_role, x_user_id) ==
    LET items_out == price_items(s.variants_by_sku, payload, 1)
        total == sum_lines(items_out, 1)
        balance == Balance(s, x_user_id)
    IN IF short_of_points(balance, total)
       THEN api_error(s, "create_order", 409, "INSUFFICIENT_POINTS")
       ELSE
         LET oid == s.order_id_seq
             order == [id |-> oid, user_id |-> x_user_id, status |-> New,
                       items |-> items_out, total_points |-> total,
                       history |-> <<[from |-> None, to |-> New, by_role |-> x_role]>>,
                       reserved |-> FALSE]
         IN Success([s EXCEPT
                       !.variants_by_sku[payload[1].sku].reserved = @ + payload[1].qty,
                       !.user_points = Put(@, x_user_id, balance - total),
                       !.ledger = Append(@, [user_id |-> x_user_id, delta |-> 0 - total,
                                             reason |-> "ORDER_CREATED", order_id |-> oid]),
                       !.order_id_seq = oid + 1,
                       !.orders = Put(@, oid, order)],
                    "create_order", 201)

\* lines 165-198 of create_order: price the lines, debit, allocate the id, store
place_order(s, payload, x_role, x_user_id) ==
    LET items_out == price_items(s.variants_by_sku, payload, 1)
        total == sum_lines(items_out, 1)
        balance == Balance(s, x_user_id)
    IN IF short_of_points(balance, total)
       THEN api_error(s, "create_order", 409, "INSUFFICIENT_POINTS")
       ELSE
         LET oid == s.order_id_seq
             order == [id |-> oid, user_id |-> x_user_id, status |-> New,
                       items |-> items_out, total_points |-> total,
                       history |-> <<[from |-> None, to |-> New, by_role |-> x_role]>>,
                       reserved |-> FALSE]
         IN Success([s EXCEPT
                       !.user_points = Put(@, x_user_id, balance - total),
                       !.ledger = Append(@, [user_id |-> x_user_id, delta |-> 0 - total,
                                             reason |-> "ORDER_CREATED", order_id |-> oid]),
                       !.order_id_seq = oid + 1,
                       !.orders = Put(@, oid, order)],
                    "create_order", 201)

create_order(s, payload, x_role, x_user_id) ==
  IF ~require_role(x_role, {"buyer"})
  THEN api_error(s, "create_order", 403, "FORBIDDEN")
  ELSE IF x_user_id = NoUser
  THEN api_error(s, "create_order", 422, "VALIDATION_ERROR")
  ELSE IF \E i \in DOMAIN payload : payload[i].sku \notin DOMAIN s.variants_by_sku
  THEN api_error(s, "create_order", 404, "SKU_NOT_FOUND")
  ELSE place_order(s, payload, x_role, x_user_id)

\* first loop of reserve_for_order: the index of the first short line, 0 if none
RECURSIVE first_short(_, _, _)
first_short(vs, items, i) ==
  IF i > Len(items) THEN 0
  ELSE IF vs[items[i].sku].stock_total - vs[items[i].sku].reserved < items[i].qty
       THEN i
       ELSE first_short(vs, items, i + 1)

\* second loop of reserve_for_order
\* a second loop that assigns the quantity where the code adds it
RECURSIVE add_reserved_assigns(_, _, _)
add_reserved_assigns(vs, items, i) ==
  IF i > Len(items) THEN vs
  ELSE add_reserved_assigns([vs EXCEPT ![items[i].sku].reserved = items[i].qty],
                            items, i + 1)

RECURSIVE add_reserved(_, _, _)
add_reserved(vs, items, i) ==
  IF i > Len(items) THEN vs
  ELSE add_reserved([vs EXCEPT ![items[i].sku].reserved = @ + items[i].qty], items, i + 1)

Max(a, b) == IF a >= b THEN a ELSE b

\* a reservation that checks and reserves line by line in one loop
RECURSIVE reserve_as_you_go(_, _, _, _)
reserve_as_you_go(s, oid, items, i) ==
  IF i > Len(items) THEN [s |-> [s EXCEPT !.orders[oid].reserved = TRUE], err |-> "OK"]
  ELSE IF s.variants_by_sku[items[i].sku].stock_total
            - s.variants_by_sku[items[i].sku].reserved < items[i].qty
       THEN [s |-> s, err |-> "INSUFFICIENT_STOCK"]
       ELSE reserve_as_you_go(
              [s EXCEPT !.variants_by_sku[items[i].sku].reserved = @ + items[i].qty],
              oid, items, i + 1)

reserve_for_order_one_pass(s, oid) ==
  IF s.orders[oid].reserved THEN [s |-> s, err |-> "OK"]
  ELSE reserve_as_you_go(s, oid, s.orders[oid].items, 1)

\* a reservation that does not look at the order's flag
reserve_for_order_unguarded(s, oid) ==
  IF first_short(s.variants_by_sku, s.orders[oid].items, 1) # 0
  THEN [s |-> s, err |-> "INSUFFICIENT_STOCK"]
  ELSE [s |-> [s EXCEPT
                 !.variants_by_sku = add_reserved(@, s.orders[oid].items, 1),
                 !.orders[oid].reserved = TRUE],
        err |-> "OK"]

\* result of a helper that may raise: err = "OK" or the error code raised
reserve_for_order(s, oid) ==
  IF s.orders[oid].reserved THEN [s |-> s, err |-> "OK"]
  ELSE IF first_short(s.variants_by_sku, s.orders[oid].items, 1) # 0
  THEN [s |-> s, err |-> "INSUFFICIENT_STOCK"]
  ELSE [s |-> [s EXCEPT
                 !.variants_by_sku = add_reserved(@, s.orders[oid].items, 1),
                 !.orders[oid].reserved = TRUE],
        err |-> "OK"]

RECURSIVE sub_reserved(_, _, _)
sub_reserved(vs, items, i) ==
  IF i > Len(items) THEN vs
  ELSE sub_reserved([vs EXCEPT ![items[i].sku].reserved = Max(0, @ - items[i].qty)],
                    items, i + 1)

\* a release that only clears the flag
unreserve_for_order_flag_only(s, oid) ==
  IF ~s.orders[oid].reserved THEN s
  ELSE [s EXCEPT !.orders[oid].reserved = FALSE]

unreserve_for_order(s, oid) ==
  IF ~s.orders[oid].reserved THEN s
  ELSE [s EXCEPT !.variants_by_sku = sub_reserved(@, s.orders[oid].items, 1),
                 !.orders[oid].reserved = FALSE]

\* a consume that takes the units out of the stock and leaves them reserved
RECURSIVE deduct_items_stock_only(_, _, _)
deduct_items_stock_only(vs, items, i) ==
  IF i > Len(items) THEN vs
  ELSE deduct_items_stock_only([vs EXCEPT ![items[i].sku].stock_total = @ - items[i].qty],
                               items, i + 1)

RECURSIVE deduct_items(_, _, _)
deduct_items(vs, items, i) ==
  IF i > Len(items) THEN vs
  ELSE deduct_items([vs EXCEPT ![items[i].sku].stock_total = @ - items[i].qty,
                               ![items[i].sku].reserved = Max(0, @ - items[i].qty)],
                    items, i + 1)

\* a consume that forgets to clear the order's flag
deduct_stock_on_complete_keeps_flag(s, oid) ==
  LET r == IF ~s.orders[oid].reserved THEN reserve_for_order(s, oid)
           ELSE [s |-> s, err |-> "OK"]
  IN IF r.err # "OK" THEN r
     ELSE [s |-> [r.s EXCEPT !.variants_by_sku = deduct_items(@, r.s.orders[oid].items, 1)],
           err |-> "OK"]

deduct_stock_on_complete(s, oid) ==
  LET r == IF ~s.orders[oid].reserved THEN reserve_for_order(s, oid)
           ELSE [s |-> s, err |-> "OK"]
  IN IF r.err # "OK" THEN r
     ELSE [s |-> [r.s EXCEPT !.variants_by_sku = deduct_items(@, r.s.orders[oid].items, 1),
                             !.orders[oid].reserved = FALSE],
           err |-> "OK"]

\* a refund that credits the balance and writes no ledger entry
refund_points_unlogged(s, oid) ==
  LET uid == s.orders[oid].user_id
      total == s.orders[oid].total_points
  IN [s EXCEPT !.user_points = Put(@, uid, Balance(s, uid) + total)]

refund_points(s, oid) ==
  LET uid == s.orders[oid].user_id
      total == s.orders[oid].total_points
  IN [s EXCEPT !.user_points = Put(@, uid, Balance(s, uid) + total),
               !.ledger = Append(@, [user_id |-> uid, delta |-> total,
                                     reason |-> "ORDER_CANCELLED", order_id |-> oid])]

\* a commit that reads the previous status after it has assigned the new one
set_status_prev_after(s, oid, from, to, x_role) ==
  [s EXCEPT !.orders[oid].status = to,
            !.orders[oid].history = Append(@, [from |-> to, to |-> to, by_role |-> x_role])]

\* lines 284-286 and 309-312: commit the status and append the history entry
set_status(s, oid, from, to, x_role) ==
  [s EXCEPT !.orders[oid].status = to,
            !.orders[oid].history = Append(@, [from |-> from, to |-> to, by_role |-> x_role])]

update_order_status(s, order_id, target, x_role) ==
  IF ~require_role(x_role, {"fulfillment_admin"})
  THEN api_error(s, "update_order_status", 403, "FORBIDDEN")
  ELSE IF order_id \notin DOMAIN s.orders
  THEN api_error(s, "update_order_status", 404, "NOT_FOUND")
  ELSE
    LET current == s.orders[order_id].status
        allowed == ALLOWED_TRANSITIONS[current]
    IN IF target \notin allowed
       THEN api_error(s, "update_order_status", 400, "INVALID_STATUS_TRANSITION")
       ELSE
         LET r1 == IF target = UnderReview THEN reserve_for_order(s, order_id)
                   ELSE [s |-> s, err |-> "OK"]
         IN IF r1.err # "OK" THEN api_error(r1.s, "update_order_status", 409, r1.err)
            ELSE IF target = Cancelled /\ current \notin CANCEL_ALLOWED
            THEN api_error(r1.s, "update_order_status", 400, "CANCEL_NOT_ALLOWED")
            ELSE
              LET s2 == IF target = Cancelled
                        THEN refund_points(unreserve_for_order(r1.s, order_id), order_id)
                        ELSE r1.s
                  r3 == IF target = Completed THEN deduct_stock_on_complete(s2, order_id)
                        ELSE [s |-> s2, err |-> "OK"]
              IN IF r3.err # "OK" THEN api_error(r3.s, "update_order_status", 409, r3.err)
                 ELSE Success(set_status(r3.s, order_id, current, target, x_role),
                              "update_order_status", 200)

\* a cancellation that refunds and keeps the reservation
cancel_order_keeps_reservation(s, order_id, x_role, x_user_id) ==
  IF x_role \notin {"buyer", "fulfillment_admin"}
  THEN api_error(s, "cancel_order", 403, "FORBIDDEN")
  ELSE IF order_id \notin DOMAIN s.orders
  THEN api_error(s, "cancel_order", 404, "NOT_FOUND")
  ELSE IF x_role = "buyer" /\ x_user_id = NoUser
  THEN api_error(s, "cancel_order", 422, "VALIDATION_ERROR")
  ELSE IF x_role = "buyer" /\ s.orders[order_id].user_id # x_user_id
  THEN api_error(s, "cancel_order", 403, "FORBIDDEN")
  ELSE IF s.orders[order_id].status \notin CANCEL_ALLOWED
  THEN api_error(s, "cancel_order", 400, "CANCEL_NOT_ALLOWED")
  ELSE
    LET s1 == refund_points(s, order_id)
        prev == s1.orders[order_id].status
    IN Success(set_status(s1, order_id, prev, Cancelled, x_role), "cancel_order", 200)

\* a cancellation that does not look at who owns the order
cancel_order_any_buyer(s, order_id, x_role, x_user_id) ==
  IF x_role \notin {"buyer", "fulfillment_admin"}
  THEN api_error(s, "cancel_order", 403, "FORBIDDEN")
  ELSE IF order_id \notin DOMAIN s.orders
  THEN api_error(s, "cancel_order", 404, "NOT_FOUND")
  ELSE IF x_role = "buyer" /\ x_user_id = NoUser
  THEN api_error(s, "cancel_order", 422, "VALIDATION_ERROR")
  ELSE IF s.orders[order_id].status \notin CANCEL_ALLOWED
  THEN api_error(s, "cancel_order", 400, "CANCEL_NOT_ALLOWED")
  ELSE
    LET s1 == refund_points(unreserve_for_order(s, order_id), order_id)
        prev == s1.orders[order_id].status
    IN Success(set_status(s1, order_id, prev, Cancelled, x_role), "cancel_order", 200)

cancel_order(s, order_id, x_role, x_user_id) ==
  IF x_role \notin {"buyer", "fulfillment_admin"}
  THEN api_error(s, "cancel_order", 403, "FORBIDDEN")
  ELSE IF order_id \notin DOMAIN s.orders
  THEN api_error(s, "cancel_order", 404, "NOT_FOUND")
  ELSE IF x_role = "buyer" /\ x_user_id = NoUser
  THEN api_error(s, "cancel_order", 422, "VALIDATION_ERROR")
  ELSE IF x_role = "buyer" /\ s.orders[order_id].user_id # x_user_id
  THEN api_error(s, "cancel_order", 403, "FORBIDDEN")
  ELSE IF s.orders[order_id].status \notin CANCEL_ALLOWED
  THEN api_error(s, "cancel_order", 400, "CANCEL_NOT_ALLOWED")
  ELSE
    LET s1 == refund_points(unreserve_for_order(s, order_id), order_id)
        prev == s1.orders[order_id].status
    IN Success(set_status(s1, order_id, prev, Cancelled, x_role), "cancel_order", 200)

\* ---- the sequential specification: handlers run one at a time ----
Init ==
  /\ product_id_seq = 1
  /\ order_id_seq = 1
  /\ products = <<>>
  /\ variants_by_sku = <<>>
  /\ orders = <<>>
  /\ user_points = [u \in {"u1", "u2"} |-> IF u = "u1" THEN 5000 ELSE 2000]
  /\ ledger = <<>>
  /\ pc = [t \in Threads |-> "idle"]
  /\ loc = [t \in Threads |-> NoLocals]

\* the handler's result becomes the state (the response goes to the caller)
Store(s) ==
  /\ product_id_seq' = s.product_id_seq
  /\ order_id_seq' = s.order_id_seq
  /\ products' = s.products
  /\ variants_by_sku' = s.variants_by_sku
  /\ orders' = s.orders
  /\ user_points' = s.user_points
  /\ ledger' = s.ledger

\* a handler run from its first line to its last with no other request in between
Commit(r) == Store(r.s) /\ UNCHANGED <<pc, loc>>

CreateProduct ==
  /\ product_id_seq <= MaxProducts
  /\ \E payload \in ProductCreate, x_role \in Roles :
       Commit(create_product(State, payload, x_role))

CreateOrder ==
  /\ order_id_seq <= MaxOrders
  /\ \E payload \in OrderCreate, x_role \in Roles, x_user_id \in Callers \cup {NoUser} :
       Commit(create_order(State, payload, x_role, x_user_id))

UpdateOrderStatus ==
  \E order_id \in 1..MaxOrders, target \in OrderStatus, x_role \in Roles :
    Commit(update_order_status(State, order_id, target, x_role))

CancelOrder ==
  \E order_id \in 1..MaxOrders, x_role \in Roles, x_user_id \in Callers \cup {NoUser} :
    Commit(cancel_order(State, order_id, x_role, x_user_id))

Next == CreateProduct \/ CreateOrder \/ UpdateOrderStatus \/ CancelOrder

Spec == Init /\ [][Next]_vars

\* ======================================================================
\* Requests handled at the same time.  The handlers are plain `def`
\* functions, which the framework runs on the threads of a pool, and the
\* module takes no lock: a handler can be suspended between any two of its
\* reads and writes of the tables.  A thread is at "idle" before its
\* request, at "done" after it, and in between at the read or write it
\* performs next; loc holds its local variables, code the response.
\* Each thread handles one request; the tables are filled beforehand by
\* handlers that run alone.
\* ======================================================================
tables == <<product_id_seq, order_id_seq, products, variants_by_sku, orders,
            user_points, ledger>>

AllIdle == \A t \in Threads : pc[t] = "idle"

\* carts whose lines name distinct SKUs
DistinctSkuCarts ==
  {p \in OrderCreate : \A i, j \in DOMAIN p : p[i].sku = p[j].sku => i = j}

SetupProduct ==
  /\ AllIdle
  /\ product_id_seq <= MaxProducts
  /\ \E payload \in ProductCreate : Commit(create_product(State, payload, "content_admin"))

SetupOrder ==
  /\ AllIdle
  /\ order_id_seq <= MaxOrders
  /\ \E payload \in DistinctSkuCarts, x_user_id \in Callers :
       Commit(create_order(State, payload, "buyer", x_user_id))

Goto(t, label) == pc' = [pc EXCEPT ![t] = label]

\* the request ends with this response code
Reply(t, l, code) ==
  /\ pc' = [pc EXCEPT ![t] = "done"]
  /\ loc' = [loc EXCEPT ![t] = [l EXCEPT !.code = code]]

\* ---- update_order_status with target UnderReview, read by read ----
\* lines 262-265: the role check and orders.get.  The requests in flight are for
\* different orders.
RvBegin(t) ==
  /\ pc[t] = "idle"
  /\ \E order_id \in 1..MaxOrders, x_role \in {"fulfillment_admin", "buyer"} :
       /\ \A other \in Threads \ {t} : pc[other] # "idle" => loc[other].order_id # order_id
       /\ LET l == [op |-> "update_order_status", order_id |-> order_id, x_role |-> x_role,
                   target |-> UnderReview, current |-> None, i |-> 1, tmp |-> 0, code |-> "-"]
          IN IF ~require_role(x_role, {"fulfillment_admin"}) THEN Reply(t, l, "FORBIDDEN")
             ELSE IF order_id \notin DOMAIN orders THEN Reply(t, l, "NOT_FOUND")
             ELSE Goto(t, "rv_status") /\ loc' = [loc EXCEPT ![t] = l]
  /\ UNCHANGED tables

\* lines 267-272: read the status and check the transition
RvStatus(t) ==
  /\ pc[t] = "rv_status"
  /\ LET current == orders[loc[t].order_id].status
         l == [loc[t] EXCEPT !.current = current]
     IN IF loc[t].target \notin ALLOWED_TRANSITIONS[current]
        THEN Reply(t, l, "INVALID_STATUS_TRANSITION")
        ELSE Goto(t, "rv_flag") /\ loc' = [loc EXCEPT ![t] = l]
  /\ UNCHANGED tables

\* lines 224-225: an order already reserved is not reserved again
RvFlag(t) ==
  /\ pc[t] = "rv_flag"
  /\ IF orders[loc[t].order_id].reserved THEN Goto(t, "rv_set_status") ELSE Goto(t, "rv_check")
  /\ UNCHANGED <<tables, loc>>

\* lines 226-230: one pass of the first loop
RvCheck(t) ==
  /\ pc[t] = "rv_check"
  /\ LET items == orders[loc[t].order_id].items
         it == items[loc[t].i]
         v == variants_by_sku[it.sku]
         available == v.stock_total - v.reserved
     IN IF available < it.qty THEN Reply(t, loc[t], "INSUFFICIENT_STOCK")
        ELSE IF loc[t].i < Len(items)
        THEN Goto(t, "rv_check") /\ loc' = [loc EXCEPT ![t].i = @ + 1]
        ELSE Goto(t, "rv_load") /\ loc' = [loc EXCEPT ![t].i = 1]
  /\ UNCHANGED tables

\* line 233, right-hand side: read the variant's reserved counter
RvLoad(t) ==
  /\ pc[t] = "rv_load"
  /\ LET it == orders[loc[t].order_id].items[loc[t].i]
     IN loc' = [loc EXCEPT ![t].tmp = variants_by_sku[it.sku].reserved + it.qty]
  /\ Goto(t, "rv_store")
  /\ UNCHANGED tables

\* line 233, the assignment; then the next pass of the second loop
RvStore(t) ==
  /\ pc[t] = "rv_store"
  /\ LET items == orders[loc[t].order_id].items
         it == items[loc[t].i]
     IN /\ variants_by_sku' = [variants_by_sku EXCEPT ![it.sku].reserved = loc[t].tmp]
        /\ IF loc[t].i < Len(items)
           THEN Goto(t, "rv_load") /\ loc' = [loc EXCEPT ![t].i = @ + 1]
           ELSE Goto(t, "rv_set_flag") /\ UNCHANGED loc
  /\ UNCHANGED <<product_id_seq, order_id_seq, products, orders, user_points, ledger>>

\* line 234
RvSetFlag(t) ==
  /\ pc[t] = "rv_set_flag"
  /\ orders' = [orders EXCEPT ![loc[t].order_id].reserved = TRUE]
  /\ Goto(t, "rv_set_status")
  /\ UNCHANGED <<product_id_seq, order_id_seq, products, variants_by_sku, user_points,
                 ledger, loc>>

\* line 284
RvSetStatus(t) ==
  /\ pc[t] = "rv_set_status"
  /\ orders' = [orders EXCEPT ![loc[t].order_id].status = loc[t].target]
  /\ Goto(t, "rv_history")
  /\ UNCHANGED <<product_id_seq, order_id_seq, products, variants_by_sku, user_points,
                 ledger, loc>>

\* line 286, and the response
RvHistory(t) ==
  /\ pc[t] = "rv_history"
  /\ orders' = [orders EXCEPT ![loc[t].order_id].history =
                  Append(@, [from |-> loc[t].current, to |-> loc[t].target,
                             by_role |-> loc[t].x_role])]
  /\ Reply(t, loc[t], "OK")
  /\ UNCHANGED <<product_id_seq, order_id_seq, products, variants_by_sku, user_points, ledger>>

ReviewNext ==
  \/ SetupProduct
  \/ SetupOrder
  \/ \E t \in Threads :
       \/ RvBegin(t) \/ RvStatus(t) \/ RvFlag(t) \/ RvCheck(t) \/ RvLoad(t)
       \/ RvStore(t) \/ RvSetFlag(t) \/ RvSetStatus(t) \/ RvHistory(t)

ReviewSpec == Init /\ [][ReviewNext]_vars

\* ---- create_order, read by read ----
\* lines 157-159: the role and the user id, both from the request
CoBegin(t) ==
  /\ pc[t] = "idle"
  /\ \E payload \in OrderCreate, x_role \in {"buyer", NoRole}, x_user_id \in Callers \cup {NoUser} :
       LET l == [op |-> "create_order", payload |-> payload, x_role |-> x_role,
                 x_user_id |-> x_user_id, items_out |-> <<>>, total |-> 0, balance |-> 0,
                 oid |-> 0, tmp |-> 0, code |-> "-"]
       IN IF ~require_role(x_role, {"buyer"}) THEN Reply(t, l, "FORBIDDEN")
          ELSE IF x_user_id = NoUser THEN Reply(t, l, "VALIDATION_ERROR")
          ELSE Goto(t, "co_price") /\ loc' = [loc EXCEPT ![t] = l]
  /\ UNCHANGED tables

\* lines 161-171: look every SKU up, then price the lines (the catalogue does not
\* change while checkouts run)
CoPrice(t) ==
  /\ pc[t] = "co_price"
  /\ IF \E i \in DOMAIN loc[t].payload : loc[t].payload[i].sku \notin DOMAIN variants_by_sku
     THEN Reply(t, loc[t], "SKU_NOT_FOUND")
     ELSE LET items_out == price_items(variants_by_sku, loc[t].payload, 1)
          IN /\ loc' = [loc EXCEPT ![t].items_out = items_out,
                                   ![t].total = sum_lines(items_out, 1)]
             /\ Goto(t, "co_balance")
  /\ UNCHANGED tables

\* line 173: read the balance
CoBalance(t) ==
  /\ pc[t] = "co_balance"
  /\ loc' = [loc EXCEPT ![t].balance = BalanceIn(user_points, loc[t].x_user_id)]
  /\ Goto(t, "co_check")
  /\ UNCHANGED tables

\* lines 174-175: check the balance that was read
CoCheck(t) ==
  /\ pc[t] = "co_check"
  /\ IF short_of_points(loc[t].balance, loc[t].total)
     THEN Reply(t, loc[t], "INSUFFICIENT_POINTS")
     ELSE Goto(t, "co_debit") /\ UNCHANGED loc
  /\ UNCHANGED tables

\* line 178: write the balance
CoDebit(t) ==
  /\ pc[t] = "co_debit"
  /\ user_points' = Put(user_points, loc[t].x_user_id, loc[t].balance - loc[t].total)
  /\ Goto(t, "co_ledger")
  /\ UNCHANGED <<product_id_seq, order_id_seq, products, variants_by_sku, orders, ledger, loc>>

\* line 179: append the ledger entry, its order id still None (0 here)
CoLedger(t) ==
  /\ pc[t] = "co_ledger"
  /\ ledger' = Append(ledger, [user_id |-> loc[t].x_user_id, delta |-> 0 - loc[t].total,
                               reason |-> "ORDER_CREATED", order_id |-> 0])
  /\ Goto(t, "co_seq")
  /\ UNCHANGED <<product_id_seq, order_id_seq, products, variants_by_sku, orders,
                 user_points, loc>>

\* lines 182-183: read the sequence, for oid and for the increment
CoSeq(t) ==
  /\ pc[t] = "co_seq"
  /\ loc' = [loc EXCEPT ![t].oid = order_id_seq, ![t].tmp = order_id_seq + 1]
  /\ Goto(t, "co_seq_store")
  /\ UNCHANGED tables

\* line 183: write the incremented sequence
CoSeqStore(t) ==
  /\ pc[t] = "co_seq_store"
  /\ order_id_seq' = loc[t].tmp
  /\ Goto(t, "co_store")
  /\ UNCHANGED <<product_id_seq, products, variants_by_sku, orders, user_points, ledger, loc>>

\* lines 185-196: build the order and store it under its id
CoStore(t) ==
  /\ pc[t] = "co_store"
  /\ orders' = Put(orders, loc[t].oid,
                   [id |-> loc[t].oid, user_id |-> loc[t].x_user_id, status |-> New,
                    items |-> loc[t].items_out, total_points |-> loc[t].total,
                    history |-> <<[from |-> None, to |-> New, by_role |-> loc[t].x_role]>>,
                    reserved |-> FALSE])
  /\ Goto(t, "co_link")
  /\ UNCHANGED <<product_id_seq, order_id_seq, products, variants_by_sku, user_points,
                 ledger, loc>>

\* line 197: the last entry of the ledger gets the order id; then the response
CoLink(t) ==
  /\ pc[t] = "co_link"
  /\ ledger' = [ledger EXCEPT ![Len(ledger)].order_id = loc[t].oid]
  /\ Reply(t, loc[t], "OK")
  /\ UNCHANGED <<product_id_seq, order_id_seq, products, variants_by_sku, orders, user_points>>

CheckoutNext ==
  \/ SetupProduct
  \/ \E t \in Threads :
       \/ CoBegin(t) \/ CoPrice(t) \/ CoBalance(t) \/ CoCheck(t) \/ CoDebit(t)
       \/ CoLedger(t) \/ CoSeq(t) \/ CoSeqStore(t) \/ CoStore(t) \/ CoLink(t)

CheckoutSpec == Init /\ [][CheckoutNext]_vars

\* ---- the two cancellations, read by read ----
\* an order is reviewed by a handler that runs alone, before the cancellations
SetupReview ==
  /\ AllIdle
  /\ \E order_id \in DOMAIN orders :
       Commit(update_order_status(State, order_id, UnderReview, "fulfillment_admin"))

\* the requests that cancel: cancel_order by the buyer or the admin, and
\* update_order_status to Cancelled by the admin
CancelRequests ==
  {[op |-> "cancel_order", x_role |-> "buyer", x_user_id |-> u] : u \in Callers}
    \cup {[op |-> "cancel_order", x_role |-> "fulfillment_admin", x_user_id |-> NoUser],
          [op |-> "update_order_status", x_role |-> "fulfillment_admin", x_user_id |-> NoUser]}

\* lines 262-265 and 291-301: the role, orders.get and, for a buyer, the owner.
\* The requests in flight are for the same order.
CnBegin(t) ==
  /\ pc[t] = "idle"
  /\ \E order_id \in 1..MaxOrders, rq \in CancelRequests :
       /\ \A other \in Threads \ {t} : pc[other] # "idle" => loc[other].order_id = order_id
       /\ LET l == [op |-> rq.op, order_id |-> order_id, x_role |-> rq.x_role,
                    x_user_id |-> rq.x_user_id, target |-> Cancelled, current |-> None,
                    i |-> 1, tmp |-> 0, code |-> "-"]
          IN IF order_id \notin DOMAIN orders THEN Reply(t, l, "NOT_FOUND")
             ELSE IF rq.op = "cancel_order" /\ rq.x_role = "buyer"
                     /\ orders[order_id].user_id # rq.x_user_id
             THEN Reply(t, l, "FORBIDDEN")
             ELSE Goto(t, "cn_status") /\ loc' = [loc EXCEPT ![t] = l]
  /\ UNCHANGED tables

\* lines 267-278 and 303-304: read the status and check that it can be cancelled
CnStatus(t) ==
  /\ pc[t] = "cn_status"
  /\ LET current == orders[loc[t].order_id].status
         l == [loc[t] EXCEPT !.current = current]
     IN IF loc[t].op = "update_order_status" /\ Cancelled \notin ALLOWED_TRANSITIONS[current]
        THEN Reply(t, l, "INVALID_STATUS_TRANSITION")
        ELSE IF current \notin CANCEL_ALLOWED THEN Reply(t, l, "CANCEL_NOT_ALLOWED")
        ELSE Goto(t, "cn_flag") /\ loc' = [loc EXCEPT ![t] = l]
  /\ UNCHANGED tables

\* lines 237-238: an order that is not reserved has nothing to release
CnFlag(t) ==
  /\ pc[t] = "cn_flag"
  /\ IF orders[loc[t].order_id].reserved THEN Goto(t, "cn_load") ELSE Goto(t, "cn_balance")
  /\ UNCHANGED <<tables, loc>>

\* line 241, right-hand side: read the variant's reserved counter
CnLoad(t) ==
  /\ pc[t] = "cn_load"
  /\ LET it == orders[loc[t].order_id].items[loc[t].i]
     IN loc' = [loc EXCEPT ![t].tmp = Max(0, variants_by_sku[it.sku].reserved - it.qty)]
  /\ Goto(t, "cn_store")
  /\ UNCHANGED tables

\* line 241, the assignment; then the next pass of the loop
CnStore(t) ==
  /\ pc[t] = "cn_store"
  /\ LET items == orders[loc[t].order_id].items
         it == items[loc[t].i]
     IN /\ variants_by_sku' = [variants_by_sku EXCEPT ![it.sku].reserved = loc[t].tmp]
        /\ IF loc[t].i < Len(items)
           THEN Goto(t, "cn_load") /\ loc' = [loc EXCEPT ![t].i = @ + 1]
           ELSE Goto(t, "cn_clear") /\ UNCHANGED loc
  /\ UNCHANGED <<product_id_seq, order_id_seq, products, orders, user_points, ledger>>

\* line 242
CnClear(t) ==
  /\ pc[t] = "cn_clear"
  /\ orders' = [orders EXCEPT ![loc[t].order_id].reserved = FALSE]
  /\ Goto(t, "cn_balance")
  /\ UNCHANGED <<product_id_seq, order_id_seq, products, variants_by_sku, user_points,
                 ledger, loc>>

\* line 257, right-hand side: read the balance
CnBalance(t) ==
  /\ pc[t] = "cn_balance"
  /\ LET order == orders[loc[t].order_id]
     IN loc' = [loc EXCEPT ![t].tmp = BalanceIn(user_points, order.user_id) + order.total_points]
  /\ Goto(t, "cn_credit")
  /\ UNCHANGED tables

\* line 257, the assignment
CnCredit(t) ==
  /\ pc[t] = "cn_credit"
  /\ user_points' = Put(user_points, orders[loc[t].order_id].user_id, loc[t].tmp)
  /\ Goto(t, "cn_ledger")
  /\ UNCHANGED <<product_id_seq, order_id_seq, products, variants_by_sku, orders, ledger, loc>>

\* line 258; cancel_order then reads the status again (line 309)
CnLedger(t) ==
  /\ pc[t] = "cn_ledger"
  /\ LET order == orders[loc[t].order_id]
     IN ledger' = Append(ledger, [user_id |-> order.user_id, delta |-> order.total_points,
                                  reason |-> "ORDER_CANCELLED", order_id |-> order.id])
  /\ IF loc[t].op = "cancel_order" THEN Goto(t, "cn_prev") ELSE Goto(t, "cn_set_status")
  /\ UNCHANGED <<product_id_seq, order_id_seq, products, variants_by_sku, orders,
                 user_points, loc>>

\* line 309
CnPrev(t) ==
  /\ pc[t] = "cn_prev"
  /\ loc' = [loc EXCEPT ![t].current = orders[loc[t].order_id].status]
  /\ Goto(t, "cn_set_status")
  /\ UNCHANGED tables

\* lines 284 and 310
CnSetStatus(t) ==
  /\ pc[t] = "cn_set_status"
  /\ orders' = [orders EXCEPT ![loc[t].order_id].status = Cancelled]
  /\ Goto(t, "cn_history")
  /\ UNCHANGED <<product_id_seq, order_id_seq, products, variants_by_sku, user_points,
                 ledger, loc>>

\* lines 286 and 312, and the response
CnHistory(t) ==
  /\ pc[t] = "cn_history"
  /\ orders' = [orders EXCEPT ![loc[t].order_id].history =
                  Append(@, [from |-> loc[t].current, to |-> Cancelled,
                             by_role |-> loc[t].x_role])]
  /\ Reply(t, loc[t], "OK")
  /\ UNCHANGED <<product_id_seq, order_id_seq, products, variants_by_sku, user_points, ledger>>

CancelNext ==
  \/ SetupProduct
  \/ SetupOrder
  \/ SetupReview
  \/ \E t \in Threads :
       \/ CnBegin(t) \/ CnStatus(t) \/ CnFlag(t) \/ CnLoad(t) \/ CnStore(t) \/ CnClear(t)
       \/ CnBalance(t) \/ CnCredit(t) \/ CnLedger(t) \/ CnPrev(t) \/ CnSetStatus(t)
       \/ CnHistory(t)

CancelSpec == Init /\ [][CancelNext]_vars

\* ======================================================================
\* Claims
\* ======================================================================

\* seed balances of line 54; 0 for a user the table has never held
Seed(u) == IF u = "u1" THEN 5000 ELSE IF u = "u2" THEN 2000 ELSE 0

RECURSIVE LedgerSum(_, _, _)
LedgerSum(lg, u, i) ==
  IF i > Len(lg) THEN 0
  ELSE (IF lg[i].user_id = u THEN lg[i].delta ELSE 0) + LedgerSum(lg, u, i + 1)

\* the ledger entries of an order with a given reason
EntriesOf(o, reason) ==
  {i \in DOMAIN ledger : ledger[i].order_id = o /\ ledger[i].reason = reason}

Available(sku) == variants_by_sku[sku].stock_total - variants_by_sku[sku].reserved

\* the role that may drive transitions (line 262)
Admin == "fulfillment_admin"

\* C1: for every variant, 0 <= reserved <= stock_total in every state reached by
\* handlers run one at a time, carts with repeated SKUs included.
C1_ReservedWithinStock ==
  \A sku \in DOMAIN variants_by_sku :
    /\ 0 <= variants_by_sku[sku].reserved
    /\ variants_by_sku[sku].reserved <= variants_by_sku[sku].stock_total

\* C2: every user's balance, seeded or never seen, is >= 0 in every reachable state.
C2_BalanceNonNegative == \A u \in UserIds : Balance(State, u) >= 0

\* a priced order was paid for and the unseeded user has been given an account
C2_Witness ==
  /\ "u3" \in DOMAIN user_points
  /\ \E o \in DOMAIN orders :
       /\ orders[o].total_points > 0
       /\ Balance(State, orders[o].user_id) < Seed(orders[o].user_id)

\* C3: for every user the deltas of the user's ledger entries sum to balance minus
\* seed; the ledger only grows, and a balance changes only together with one new
\* ledger entry for that user of the same signed amount.
C3_LedgerMatchesBalance ==
  /\ [](\A u \in UserIds : LedgerSum(ledger, u, 1) = Balance(State, u) - Seed(u))
  /\ [][/\ Len(ledger') >= Len(ledger)
        /\ SubSeq(ledger', 1, Len(ledger)) = ledger
        /\ \A u \in UserIds :
             BalanceIn(user_points', u) # BalanceIn(user_points, u) =>
               /\ Len(ledger') = Len(ledger) + 1
               /\ ledger'[Len(ledger')].user_id = u
               /\ ledger'[Len(ledger')].delta
                    = BalanceIn(user_points', u) - BalanceIn(user_points, u)]_vars

\* u1 has been debited and refunded real points and is still short of the seed
C3_Witness ==
  /\ \E i \in DOMAIN ledger :
       ledger[i].user_id = "u1" /\ ledger[i].reason = "ORDER_CANCELLED" /\ ledger[i].delta > 0
  /\ Balance(State, "u1") < Seed("u1")

\* C4: every order has exactly one ORDER_CREATED entry, debiting its total from its
\* owner, and exactly one ORDER_CANCELLED entry crediting the total back when its
\* status is Cancelled, none in any other status.
C4_RefundedExactlyOnce ==
  \A o \in DOMAIN orders :
    /\ Cardinality(EntriesOf(o, "ORDER_CREATED")) = 1
    /\ \A i \in EntriesOf(o, "ORDER_CREATED") :
         ledger[i].user_id = orders[o].user_id /\ ledger[i].delta = 0 - orders[o].total_points
    /\ Cardinality(EntriesOf(o, "ORDER_CANCELLED"))
         = (IF orders[o].status = Cancelled THEN 1 ELSE 0)
    /\ \A i \in EntriesOf(o, "ORDER_CANCELLED") :
         ledger[i].user_id = orders[o].user_id /\ ledger[i].delta = orders[o].total_points

\* a priced order was cancelled after its review, beside one that was not cancelled
C4_Witness ==
  \E o, p \in DOMAIN orders :
    /\ orders[o].status = Cancelled /\ orders[o].total_points > 0
    /\ Len(orders[o].history) = 3
    /\ orders[p].status \notin {Cancelled, New}

\* the transition table as section 4.5 of the specification states it
C5_Table ==
  [st \in OrderStatus |->
     CASE st = New -> {UnderReview, Cancelled}
       [] st = UnderReview -> {Assembling, Cancelled}
       [] st = Assembling -> {ReadyForPickup}
       [] st = ReadyForPickup -> {Completed}
       [] st = Completed -> {}
       [] st = Cancelled -> {}]

\* C5: for each status and every target outside its allowed set, update_order_status
\* answers 400 INVALID_STATUS_TRANSITION and leaves every table as it was; and an
\* order in Completed or Cancelled never changes status in any step.
C5_IllegalTransitionsRejected ==
  /\ [](\A o \in DOMAIN orders : \A target \in OrderStatus \ C5_Table[orders[o].status] :
          LET r == update_order_status(State, o, target, Admin)
          IN /\ r.resp.code = "INVALID_STATUS_TRANSITION"
             /\ r.resp.status = 400
             /\ r.s = State)
  /\ [][\A o \in DOMAIN orders :
          orders[o].status \in {Completed, Cancelled} =>
            orders'[o].status = orders[o].status]_vars

\* one order is Completed and the other Cancelled: every request on them is illegal
C5_Witness ==
  \E o, p \in DOMAIN orders :
    /\ orders[o].status = Completed /\ orders[p].status = Cancelled
    /\ \A target \in OrderStatus :
         update_order_status(State, o, target, Admin).resp.code = "INVALID_STATUS_TRANSITION"

\* C6: a transition to UnderReview of an order with a line whose available stock is
\* below its quantity answers 409 INSUFFICIENT_STOCK and changes nothing: no
\* variant, not the order's status, flag or history, nor anything else.
C6_ShortReviewChangesNothing ==
  \A o \in DOMAIN orders :
    (/\ orders[o].status = New
     /\ \E i \in DOMAIN orders[o].items :
          Available(orders[o].items[i].sku) < orders[o].items[i].qty)
    => LET r == update_order_status(State, o, UnderReview, Admin)
       IN /\ r.resp.code = "INSUFFICIENT_STOCK"
          /\ r.resp.status = 409
          /\ r.s = State

\* a new two-line order whose first line has the stock and whose second has not
C6_Witness ==
  \E o \in DOMAIN orders :
    /\ orders[o].status = New
    /\ Len(orders[o].items) = 2
    /\ Available(orders[o].items[1].sku) >= orders[o].items[1].qty
    /\ Available(orders[o].items[2].sku) < orders[o].items[2].qty
    /\ update_order_status(State, o, UnderReview, Admin).resp.code = "INSUFFICIENT_STOCK"

\* the total of a cart at the current prices, for a cart of known SKUs
RECURSIVE CartTotal(_, _)
CartTotal(payload, i) ==
  IF i > Len(payload) THEN 0
  ELSE variants_by_sku[payload[i].sku].price_points * payload[i].qty
       + CartTotal(payload, i + 1)

UnknownSku(payload) == \E i \in DOMAIN payload : payload[i].sku \notin DOMAIN variants_by_sku

\* C7: a checkout with an unknown SKU answers 404 SKU_NOT_FOUND whatever the
\* balance, one with known SKUs and balance < total answers 409
\* INSUFFICIENT_POINTS, and either leaves every table, the order id sequence
\* included, as it was.
C7_FailedCheckoutChangesNothing ==
  \A payload \in OrderCreate, u \in Callers :
    LET r == create_order(State, payload, "buyer", u)
    IN /\ UnknownSku(payload) =>
            r.resp.code = "SKU_NOT_FOUND" /\ r.resp.status = 404 /\ r.s = State
       /\ (~UnknownSku(payload) /\ Balance(State, u) < CartTotal(payload, 1)) =>
            r.resp.code = "INSUFFICIENT_POINTS" /\ r.resp.status = 409 /\ r.s = State

\* with an order placed, one cart fails for points and another, which the caller
\* could not pay either, fails for its unknown SKU
C7_Witness ==
  /\ orders # <<>>
  /\ \E payload \in OrderCreate, u \in Callers :
       create_order(State, payload, "buyer", u).resp.code = "INSUFFICIENT_POINTS"
  /\ \E payload \in OrderCreate :
       /\ Len(payload) = 2
       /\ payload[1].sku \in DOMAIN variants_by_sku
       /\ variants_by_sku[payload[1].sku].price_points > Balance(State, "u3")
       /\ payload[2].sku \notin DOMAIN variants_by_sku
       /\ create_order(State, payload, "buyer", "u3").resp.code = "SKU_NOT_FOUND"

\* a cancellation of order o in state s through either entry point
Cancellations(s, o, u) ==
  {cancel_order(s, o, "buyer", u), cancel_order(s, o, Admin, NoUser),
   update_order_status(s, o, Cancelled, Admin)}

\* the balance of u and every variant are in s2 what they were in s1
Restored(s1, s2, u) ==
  /\ Balance(s2, u) = Balance(s1, u)
  /\ s2.variants_by_sku = s1.variants_by_sku

\* C8: from any reachable state, a successful checkout followed at once by a
\* cancellation of that order, from New or after its review, through cancel_order or
\* update_order_status, succeeds and leaves the buyer's balance and every variant's
\* reserved and stock_total at their values before the checkout.
C8_CheckoutCancelRoundTrip ==
  \A payload \in OrderCreate, u \in Callers :
    LET r1 == create_order(State, payload, "buyer", u)
        o == order_id_seq
        r2 == update_order_status(r1.s, o, UnderReview, Admin)
    IN r1.resp.code = "OK" =>
         /\ \A c \in Cancellations(r1.s, o, u) :
              /\ c.resp.code = "OK"
              /\ c.s.orders[o].status = Cancelled
              /\ Restored(State, c.s, u)
         /\ r2.resp.code = "OK" =>
              \A c \in Cancellations(r2.s, o, u) :
                /\ c.resp.code = "OK"
                /\ c.s.orders[o].status = Cancelled
                /\ Restored(State, c.s, u)

\* a priced order was reviewed and then cancelled, and its buyer holds the seed again
C8_Witness ==
  \E o \in DOMAIN orders :
    /\ orders[o].status = Cancelled
    /\ orders[o].total_points > 0
    /\ Len(orders[o].history) = 3
    /\ Balance(State, orders[o].user_id) = Seed(orders[o].user_id)
    /\ \A i \in DOMAIN orders[o].items : variants_by_sku[orders[o].items[i].sku].reserved = 0

\* the units of a SKU that an order asks for
RECURSIVE QtyOf(_, _, _)
QtyOf(items, sku, i) ==
  IF i > Len(items) THEN 0
  ELSE (IF items[i].sku = sku THEN items[i].qty ELSE 0) + QtyOf(items, sku, i + 1)

\* the review requests that have been answered with success
ReviewedOk(t) ==
  pc[t] = "done" /\ loc[t].op = "update_order_status" /\ loc[t].code = "OK"

\* C9: when orders that each fit the stock of a SKU but together exceed it are moved
\* to UnderReview by requests running at the same time, reserved never exceeds
\* stock_total, and two reviews of different orders never both succeed when the
\* orders together ask for more of a SKU than its stock.
C9_ConcurrentReviewsKeepStock ==
  /\ \A sku \in DOMAIN variants_by_sku :
       variants_by_sku[sku].reserved <= variants_by_sku[sku].stock_total
  /\ \A t1, t2 \in Threads :
       (ReviewedOk(t1) /\ ReviewedOk(t2) /\ loc[t1].order_id # loc[t2].order_id) =>
         \A sku \in DOMAIN variants_by_sku :
           QtyOf(orders[loc[t1].order_id].items, sku, 1)
             + QtyOf(orders[loc[t2].order_id].items, sku, 1)
             <= variants_by_sku[sku].stock_total

\* the totals of the checkouts of user u that were answered with success
RECURSIVE DebitedBy(_, _)
DebitedBy(u, ts) ==
  IF ts = {} THEN 0
  ELSE LET t == CHOOSE x \in ts : TRUE
       IN (IF loc[t].op = "create_order" /\ loc[t].code = "OK" /\ loc[t].x_user_id = u
           THEN loc[t].total ELSE 0)
          + DebitedBy(u, ts \ {t})

\* C10: when checkouts run at the same time, once all are answered every user's
\* balance is the seed minus the totals of the checkouts of that user that
\* succeeded; at all times no balance is negative and every user's ledger entries
\* sum to balance minus seed.
C10_ConcurrentCheckoutsDebitOnce ==
  /\ \A u \in UserIds : Balance(State, u) >= 0
  /\ (\A t \in Threads : pc[t] \in {"idle", "done"}) =>
       \A u \in UserIds :
         /\ Balance(State, u) = Seed(u) - DebitedBy(u, {t \in Threads : pc[t] = "done"})
         /\ LedgerSum(ledger, u, 1) = Balance(State, u) - Seed(u)

\* the units of a SKU held by the orders whose reserved flag is set
RECURSIVE ReservedFor(_, _)
ReservedFor(sku, os) ==
  IF os = {} THEN 0
  ELSE LET o == CHOOSE x \in os : TRUE
       IN (IF orders[o].reserved THEN QtyOf(orders[o].items, sku, 1) ELSE 0)
          + ReservedFor(sku, os \ {o})

\* the cancel requests for order o that have been answered with success
CancelledOk(o) ==
  {t \in Threads : pc[t] = "done" /\ loc[t].op \in {"cancel_order", "update_order_status"}
                   /\ loc[t].order_id = o /\ loc[t].code = "OK"}

\* C11: when requests that cancel the same order run at the same time, at most one
\* is answered with success, the order gets at most one ORDER_CANCELLED entry (the
\* buyer is credited once) and, once all are answered, every reserved counter is
\* what the orders still reserved hold (the reservation was released once).
C11_ConcurrentCancelsRefundOnce ==
  /\ \A o \in DOMAIN orders :
       /\ Cardinality(CancelledOk(o)) <= 1
       /\ Cardinality(EntriesOf(o, "ORDER_CANCELLED")) <= 1
  /\ (\A t \in Threads : pc[t] \in {"idle", "done"}) =>
       /\ \A sku \in DOMAIN variants_by_sku :
            variants_by_sku[sku].reserved = ReservedFor(sku, DOMAIN orders)
       /\ \A u \in UserIds : LedgerSum(ledger, u, 1) = Balance(State, u) - Seed(u)

\* the two entry points agree on order o for a role and the caller u: from New or
\* UnderReview both succeed with the same resulting state, from any other status
\* both are rejected and change nothing
SameCancellation(o, x_role, u) ==
  LET a == cancel_order(State, o, x_role, u)
      b == update_order_status(State, o, Cancelled, x_role)
  IN IF orders[o].status \in {New, UnderReview}
     THEN a.resp.code = "OK" /\ b.resp.code = "OK" /\ a.s = b.s
     ELSE /\ a.resp.code # "OK" /\ a.s = State
          /\ b.resp.code # "OK" /\ b.s = State

\* C12 as stated: cancel_order and update_order_status to Cancelled agree for every
\* acting role that may cancel, the buyer who owns the order included.
C12_CancellationsAgreeForEveryRole ==
  \A o \in DOMAIN orders :
    /\ SameCancellation(o, "buyer", orders[o].user_id)
    /\ SameCancellation(o, Admin, NoUser)

\* C12: invoked by fulfillment_admin, cancel_order and update_order_status to
\* Cancelled produce the same state from New or UnderReview (counters, flag,
\* balance, ledger, status, history entry) and are both rejected without a change
\* from every other status; invoked by a buyer, update_order_status answers 403
\* FORBIDDEN and changes nothing, whatever cancel_order answers.
C12_CancellationsAgreeForAdmin ==
  \A o \in DOMAIN orders :
    /\ \A u \in Callers \cup {NoUser} : SameCancellation(o, Admin, u)
    /\ LET b == update_order_status(State, o, Cancelled, "buyer")
       IN b.resp.code = "FORBIDDEN" /\ b.resp.status = 403 /\ b.s = State

\* a reserved order under review, which both entry points cancel, next to an order
\* that can no longer be cancelled
C12_Witness ==
  \E o, p \in DOMAIN orders :
    /\ orders[o].status = UnderReview /\ orders[o].reserved
    /\ orders[p].status \in {Assembling, ReadyForPickup, Completed, Cancelled}
    /\ cancel_order(State, o, Admin, NoUser).resp.code = "OK"
    /\ update_order_status(State, o, Cancelled, Admin).resp.code = "OK"
    /\ cancel_order(State, p, Admin, NoUser).resp.code = "CANCEL_NOT_ALLOWED"

\* C13: cancel_order by a buyer succeeds only for the owner of an order in New or
\* UnderReview; for another user's order it answers 403 FORBIDDEN whatever the
\* status, for the owner's order in any other status 400 CANCEL_NOT_ALLOWED, and
\* in both cases every table stays as it was.
C13_BuyerCancelRules ==
  \A o \in DOMAIN orders : \A u \in Callers :
    LET r == cancel_order(State, o, "buyer", u)
        owner == u = orders[o].user_id
        open == orders[o].status \in {New, UnderReview}
    IN /\ r.resp.code = "OK" <=> (owner /\ open)
       /\ ~owner => r.resp.code = "FORBIDDEN" /\ r.resp.status = 403 /\ r.s = State
       /\ (owner /\ ~open) =>
            r.resp.code = "CANCEL_NOT_ALLOWED" /\ r.resp.status = 400 /\ r.s = State

\* two orders of different buyers, one still open and one past review: each buyer
\* is refused the other's order, and the owner is refused the one past review
C13_Witness ==
  \E o, p \in DOMAIN orders :
    /\ orders[o].user_id # orders[p].user_id
    /\ orders[o].status = UnderReview
    /\ orders[p].status \in {Assembling, ReadyForPickup, Completed, Cancelled}
    /\ cancel_order(State, o, "buyer", orders[p].user_id).resp.code = "FORBIDDEN"
    /\ cancel_order(State, p, "buyer", orders[o].user_id).resp.code = "FORBIDDEN"
    /\ cancel_order(State, p, "buyer", orders[p].user_id).resp.code = "CANCEL_NOT_ALLOWED"

\* C14: reserve_for_order on an order whose reserved flag is set changes no variant
\* counter and no order field; so where a first reserve succeeds, a second one
\* changes nothing more, and each reserved counter has risen by the order's
\* quantity for that SKU once.
C14_ReserveIdempotent ==
  \A o \in DOMAIN orders :
    /\ orders[o].reserved => reserve_for_order(State, o) = [s |-> State, err |-> "OK"]
    /\ LET once == reserve_for_order(State, o)
           twice == reserve_for_order(once.s, o)
       IN (~orders[o].reserved /\ once.err = "OK") =>
            /\ once.s.orders[o].reserved
            /\ twice = once
            /\ \A sku \in DOMAIN variants_by_sku :
                 twice.s.variants_by_sku[sku].reserved
                   = variants_by_sku[sku].reserved + QtyOf(orders[o].items, sku, 1)

\* a reserved order with stock still available for it, next to a new order that a
\* first reserve can take
C14_Witness ==
  \E o, p \in DOMAIN orders :
    /\ orders[o].reserved
    /\ first_short(variants_by_sku, orders[o].items, 1) = 0
    /\ ~orders[p].reserved /\ orders[p].status = New
    /\ reserve_for_order(State, p).err = "OK"
    /\ reserve_for_order(State, p).s # State

\* C15: a checkout that succeeds leaves every variant as it was, stores the order
\* under the next id in status New with the reserved flag false and a total equal
\* to the sum of qty times the current price over the cart's lines, and lowers the
\* buyer's balance by exactly that total, touching no other balance.
C15_CheckoutCommitsOnlyPoints ==
  \A payload \in OrderCreate, u \in Callers :
    LET r == create_order(State, payload, "buyer", u)
        oid == order_id_seq
    IN r.resp.code = "OK" =>
         /\ r.resp.status = 201
         /\ r.s.variants_by_sku = variants_by_sku
         /\ r.s.products = products
         /\ DOMAIN r.s.orders = DOMAIN orders \cup {oid}
         /\ \A o \in DOMAIN orders : r.s.orders[o] = orders[o]
         /\ r.s.orders[oid].status = New
         /\ ~r.s.orders[oid].reserved
         /\ r.s.orders[oid].user_id = u
         /\ r.s.orders[oid].total_points = CartTotal(payload, 1)
         /\ Balance(r.s, u) = Balance(State, u) - CartTotal(payload, 1)
         /\ \A w \in UserIds \ {u} : Balance(r.s, w) = Balance(State, w)

\* u1 has paid 3000 for two units of a variant that has one in stock, the order is
\* New and unreserved, and a further checkout can still succeed
C15_Witness ==
  /\ \E o \in DOMAIN orders :
       /\ orders[o].status = New /\ ~orders[o].reserved
       /\ orders[o].user_id = "u1" /\ orders[o].total_points = 3000
       /\ \A sku \in DOMAIN variants_by_sku : variants_by_sku[sku].reserved = 0
  /\ Balance(State, "u1") = 2000
  /\ \E payload \in OrderCreate :
       create_order(State, payload, "buyer", "u1").resp.code = "OK"

\* C16: a create_product call that fails (SKU_EXISTS, or a SKU repeated in its own
\* batch) leaves all stored state unchanged: a step that inserts no variant and no
\* product does not advance the product id sequence, so the products stored are
\* numbered without a gap.
C16_FailedCreateProductChangesNothing ==
  [][(variants_by_sku' = variants_by_sku /\ products' = products)
       => product_id_seq' = product_id_seq]_vars

\* C17: in every reachable state an order's reserved flag is true exactly when its
\* status is UnderReview, Assembling or ReadyForPickup; so an order that can move
\* to Completed is already reserved and deduct_stock_on_complete never takes its
\* reserve-if-not-reserved branch.
C17_ReservedFlagFollowsStatus ==
  \A o \in DOMAIN orders :
    /\ orders[o].reserved <=> orders[o].status \in {UnderReview, Assembling, ReadyForPickup}
    /\ Completed \in ALLOWED_TRANSITIONS[orders[o].status] => orders[o].reserved

\* one order has been completed, which cleared its flag, and another waits for
\* pickup with its flag set
C17_Witness ==
  \E o, p \in DOMAIN orders :
    /\ orders[o].status = Completed /\ ~orders[o].reserved
    /\ orders[p].status = ReadyForPickup /\ orders[p].reserved

\* C18: a transition to Completed succeeds from ReadyForPickup and lowers, for each
\* SKU, stock_total and reserved by the order's quantity for that SKU, so that
\* stock_total - reserved stays; and a step changes the stock_total of a stored
\* variant only when it completes an order that has a line for that SKU.
C18_OnlyCompletionTakesStock ==
  /\ [](\A o \in DOMAIN orders :
          orders[o].status = ReadyForPickup =>
            LET r == update_order_status(State, o, Completed, Admin)
            IN /\ r.resp.code = "OK"
               /\ \A sku \in DOMAIN variants_by_sku :
                    LET q == QtyOf(orders[o].items, sku, 1)
                        v == variants_by_sku[sku]
                        w == r.s.variants_by_sku[sku]
                    IN /\ w.stock_total = v.stock_total - q
                       /\ w.reserved = v.reserved - q
                       /\ w.stock_total - w.reserved = Available(sku))
  /\ [][\A sku \in DOMAIN variants_by_sku :
          variants_by_sku'[sku].stock_total # variants_by_sku[sku].stock_total =>
            \E o \in DOMAIN orders :
              /\ orders[o].status = ReadyForPickup /\ orders'[o].status = Completed
              /\ QtyOf(orders[o].items, sku, 1) > 0
              /\ variants_by_sku'[sku].stock_total
                   = variants_by_sku[sku].stock_total - QtyOf(orders[o].items, sku, 1)]_vars

\* one order has been completed and has taken a unit of B out of the stock, while
\* another with a line for B waits for pickup
C18_Witness ==
  \E o, p \in DOMAIN orders :
    /\ orders[o].status = Completed /\ QtyOf(orders[o].items, "B", 1) = 1
    /\ variants_by_sku["B"].stock_total = 1
    /\ orders[p].status = ReadyForPickup /\ QtyOf(orders[p].items, "B", 1) = 1

\* C19: with operations run one at a time, each variant's reserved counter is the
\* sum of the quantities for its SKU over the lines of the orders whose reserved
\* flag is set; so a release or a consume of a reserved order subtracts no more
\* than the counter holds, and the floor at 0 alters no result.
C19_ReservationConserved ==
  /\ \A sku \in DOMAIN variants_by_sku :
       variants_by_sku[sku].reserved = ReservedFor(sku, DOMAIN orders)
  /\ \A o \in DOMAIN orders :
       orders[o].reserved =>
         \A sku \in DOMAIN variants_by_sku :
           LET left == variants_by_sku[sku].reserved - QtyOf(orders[o].items, sku, 1)
           IN /\ left >= 0
              /\ unreserve_for_order(State, o).variants_by_sku[sku].reserved = left
              /\ deduct_stock_on_complete(State, o).s.variants_by_sku[sku].reserved = left

\* two reserved orders hold one unit of B each, so the counter of B is 2
C19_Witness ==
  \E o, p \in DOMAIN orders :
    /\ o # p /\ orders[o].reserved /\ orders[p].reserved
    /\ QtyOf(orders[o].items, "B", 1) = 1 /\ QtyOf(orders[p].items, "B", 1) = 1
    /\ variants_by_sku["B"].reserved = 2

\* the history h is a chain that starts at New and follows the transition table
Chained(h) ==
  /\ Len(h) >= 1
  /\ h[1].from = None /\ h[1].to = New
  /\ \A i \in 2..Len(h) : h[i].from = h[i - 1].to /\ h[i].to \in C5_Table[h[i].from]

\* C20: every order's history starts with {from: none, to: New}, each later entry
\* starts where the previous one ended and is a pair of the transition table, and
\* the last entry ends at the order's current status; a step that changes an
\* order's status appends exactly one entry, from the old status to the new one,
\* and a step that does not leaves the history as it was.
C20_HistoryIsAChain ==
  /\ [](\A o \in DOMAIN orders :
          /\ Chained(orders[o].history)
          /\ orders[o].history[Len(orders[o].history)].to = orders[o].status)
  /\ [][\A o \in DOMAIN orders :
          LET h == orders[o].history
              g == orders'[o].history
          IN IF orders'[o].status # orders[o].status
             THEN /\ Len(g) = Len(h) + 1
                  /\ SubSeq(g, 1, Len(h)) = h
                  /\ g[Len(g)].from = orders[o].status
                  /\ g[Len(g)].to = orders'[o].status
             ELSE g = h]_vars

\* one order went the whole way to Completed, five entries, and another was
\* cancelled from UnderReview, three entries
C20_Witness ==
  \E o, p \in DOMAIN orders :
    /\ orders[o].status = Completed /\ Len(orders[o].history) = 5
    /\ orders[p].status = Cancelled /\ Len(orders[p].history) = 3
    /\ orders[p].history[3].from = UnderReview

====
